---- MODULE Spec2Model ----
(***************************************************************************)
(* A model of the Rabbitry Farm Management API (src/main.py,               *)
(* src/schemas.py): the record store with its create/list endpoints, the   *)
(* breeding planner, the medication active-window filter and the symptom   *)
(* checker.                                                                *)
(*                                                                         *)
(* Values.  A text field holds a TLA+ string; Python's None in a text      *)
(* field is the reserved value None and a key missing from a document is   *)
(* the reserved value AbsentKey (no input text equals either).  A date     *)
(* field holds a record [t, v]:                                            *)
(*   [t |-> "none", v |-> <<>>]        Python None                         *)
(*   [t |-> "date", v |-> <<y, m, d>>] a datetime.date object              *)
(*   [t |-> "str",  v |-> parts]       a str; parts are the integer fields *)
(*                                     of the text split at "-":           *)
(*                                     "2023-09-29" is <<2023, 9, 29>>,    *)
(*                                     "2023-09" is <<2023, 9>>, "" is <<>>*)
(* An exception raised by date.fromisoformat is the value ValueError.      *)
(***************************************************************************)
EXTENDS Integers, Sequences, FiniteSets, TLC

VARIABLES db, today, request, response

vars == <<db, today, request, response>>

(***************************************************************************)
(* Bounds of the model.                                                    *)
(***************************************************************************)
MaxRabbits == 3

MaxBreedings == 3

MaxMeds == 2

MaxSymptoms == 2

MaxDocs == 3

(***************************************************************************)
(* Python values.                                                          *)
(***************************************************************************)
None == "<None>"

AbsentKey == "<absent>"

NoneDate == [t |-> "none", v |-> <<>>]

ValueError == [t |-> "ValueError", v |-> <<>>]

DateObj(y, m, d) == [t |-> "date", v |-> <<y, m, d>>]

IsoText(parts) == [t |-> "str", v |-> parts]

\* Python truthiness of a text value: None and "" are falsy.
TruthyText(x) == x # None /\ x # AbsentKey /\ x # ""

\* Python truthiness of a date-field value: None and "" are falsy, a date
\* object and a non-empty str are truthy.
TruthyDate(x) == x.t = "date" \/ (x.t = "str" /\ x.v # <<>>)

(***************************************************************************)
(* datetime.date: the proleptic Gregorian calendar.                        *)
(***************************************************************************)
IsLeap(y) == (y % 4 = 0) /\ ((y % 100 # 0) \/ (y % 400 = 0))

DaysInMonth(y, m) ==
    IF m = 2 THEN (IF IsLeap(y) THEN 29 ELSE 28)
    ELSE IF m \in {4, 6, 9, 11} THEN 30 ELSE 31

RECURSIVE DaysBeforeMonth(_, _)
DaysBeforeMonth(y, m) ==
    IF m = 1 THEN 0 ELSE DaysBeforeMonth(y, m - 1) + DaysInMonth(y, m - 1)

DaysBeforeYear(y) ==
    (y - 1) * 365 + ((y - 1) \div 4) - ((y - 1) \div 100) + ((y - 1) \div 400)

\* date.toordinal(): day 1 is 0001-01-01.
toordinal(d) == DaysBeforeYear(d.v[1]) + DaysBeforeMonth(d.v[1], d.v[2]) + d.v[3]

\* (a - b).days for two dates.
DaysBetween(a, b) == toordinal(a) - toordinal(b)

\* The day after a date.
NextDay(d) ==
    LET y == d.v[1]
        m == d.v[2]
        dd == d.v[3]
    IN  IF dd < DaysInMonth(y, m) THEN DateObj(y, m, dd + 1)
        ELSE IF m < 12 THEN DateObj(y, m + 1, 1)
        ELSE DateObj(y + 1, 1, 1)

\* d + timedelta(days=n), n >= 0.
RECURSIVE AddDays(_, _)
AddDays(d, n) == IF n = 0 THEN d ELSE AddDays(NextDay(d), n - 1)

\* a > b on dates: year, month, day compared in that order.
DateGT(a, b) ==
    \/ a.v[1] > b.v[1]
    \/ (a.v[1] = b.v[1] /\ a.v[2] > b.v[2])
    \/ (a.v[1] = b.v[1] /\ a.v[2] = b.v[2] /\ a.v[3] > b.v[3])

DateLE(a, b) == ~DateGT(a, b)

\* date.fromisoformat(text): the date of a "YYYY-MM-DD" text whose fields
\* name a day of the calendar, ValueError otherwise.
fromisoformat(parts) ==
    IF /\ Len(parts) = 3
       /\ parts[1] \in 1..9999
       /\ parts[2] \in 1..12
       /\ parts[3] \in 1..DaysInMonth(parts[1], parts[2])
    THEN DateObj(parts[1], parts[2], parts[3])
    ELSE ValueError

\* date.isoformat(): the "YYYY-MM-DD" text of a date.
isoformat(d) == IsoText(d.v)

\* date.fromisoformat(str(x)) for a date-field value x: str() of a date
\* object is its ISO text, str() of a str is the str itself.
fromisoformat_str(x) ==
    IF x.t = "date" THEN fromisoformat(isoformat(x).v) ELSE fromisoformat(x.v)

\* main.py parse_date_safe: None for a falsy value or an unparseable text.
parse_date_safe(value) ==
    IF ~TruthyDate(value) THEN NoneDate
    ELSE LET d == fromisoformat(value.v)
         IN  IF d = ValueError THEN NoneDate ELSE d

(***************************************************************************)
(* The record store (database.py, not among the source files: modelled     *)
(* from the specification's Record Store: insert with a generated id, and  *)
(* filtered retrieval in stored order with an optional result cap).        *)
(***************************************************************************)
Collections ==
    {"rabbit", "healthrecord", "breeding", "litter", "medicationschedule", "task"}

\* main.py collection_name: the lower-cased class name of a schema.
collection_name(model_cls) ==
    CASE model_cls = "Rabbit" -> "rabbit"
      [] model_cls = "HealthRecord" -> "healthrecord"
      [] model_cls = "Breeding" -> "breeding"
      [] model_cls = "Litter" -> "litter"
      [] model_cls = "MedicationSchedule" -> "medicationschedule"
      [] model_cls = "Task" -> "task"

EmptyDb == [c \in Collections |-> <<>>]

ObjectId(n) == [oid |-> n]

\* str(ObjectId): the identifier rendered as text.
OidStr(o) == [hex |-> o.oid]

RECURSIVE SumLen(_, _)
SumLen(store, cs) ==
    IF cs = {} THEN 0
    ELSE LET c == CHOOSE x \in cs : TRUE
         IN  Len(store[c]) + SumLen(store, cs \ {c})

TotalDocs(store) == SumLen(store, Collections)

\* The identifier the store generates for the next inserted document.
NewId(store) == ObjectId(TotalDocs(store) + 1)

WithId(doc, id) ==
    [k \in DOMAIN doc \cup {"_id"} |-> IF k = "_id" THEN id ELSE doc[k]]

\* create_document: the store after inserting doc into collection coll.
create_document(store, coll, doc) ==
    [store EXCEPT ![coll] = Append(@, WithId(doc, NewId(store)))]

Matches(doc, filt) ==
    \A k \in DOMAIN filt : k \in DOMAIN doc /\ doc[k] = filt[k]

NoFilter == [k \in {} |-> None]

NoLimit == <<>>

Take(s, limit) ==
    IF limit = NoLimit \/ limit[1] >= Len(s) THEN s ELSE SubSeq(s, 1, limit[1])

\* get_documents: the documents of coll matching filt, in stored order, at
\* most limit of them.
get_documents(store, coll, filt, limit) ==
    Take(SelectSeq(store[coll], LAMBDA d : Matches(d, filt)), limit)

\* main.py to_dict_list: a copy of every document with its _id rendered as
\* text.
to_dict_list(docs) ==
    [i \in 1..Len(docs) |->
        IF "_id" \in DOMAIN docs[i]
        THEN [docs[i] EXCEPT !["_id"] = OidStr(@)]
        ELSE docs[i]]

\* The store holding the given documents, identifiers given in order.
RECURSIVE InsertAll(_, _, _, _)
InsertAll(store, coll, docs, i) ==
    IF i > Len(docs) THEN store
    ELSE InsertAll(create_document(store, coll, docs[i]), coll, docs, i + 1)

\* All sequences over S of length at most n.
SeqsUpTo(S, n) == UNION {[1..k -> S] : k \in 0..n}

(***************************************************************************)
(* The breeding planner (main.py breeding_plan).                           *)
(***************************************************************************)
DefaultMinDoeAge == 154

DefaultMinBuckAge == 154

DefaultCooldown == 14

GestationDays == 31

RabbitDoc(tag, sex, status, dob, sire, dam) ==
    [tag |-> tag, sex |-> sex, status |-> status, dob |-> dob,
     sire_tag |-> sire, dam_tag |-> dam]

BreedingDoc(doe, buck, dt) == [doe_tag |-> doe, buck_tag |-> buck, date_bred |-> dt]

\* r.get(key): None when the key is missing.
Get(r, key) == IF key \notin DOMAIN r \/ r[key] = AbsentKey THEN None ELSE r[key]

\* r.get("status", "active"): the default only when the key is missing.
GetStatus(r) ==
    IF "status" \notin DOMAIN r \/ r.status = AbsentKey THEN "active" ELSE r.status

NoAge == [known |-> FALSE, days |-> 0]

\* breeding_plan.age_in_days: None for a missing, falsy or unparseable dob.
age_in_days(r, now) ==
    LET dob == r.dob
    IN  IF ~TruthyDate(dob) THEN NoAge
        ELSE LET d == IF dob.t = "date" THEN dob ELSE fromisoformat_str(dob)
             IN  IF d = ValueError THEN NoAge
                 ELSE [known |-> TRUE, days |-> DaysBetween(now, d)]

\* IsDoe without the status filter.
IsDoe_AnyStatus(r) == Get(r, "sex") = "doe"

IsDoe(r) == Get(r, "sex") = "doe" /\ GetStatus(r) = "active"

IsBuck(r) == Get(r, "sex") = "buck" /\ GetStatus(r) = "active"

EmptyMap == [k \in {} |-> NoneDate]

\* LastBredStep keeping the date of the last record read, not the latest date.
LastBredStep_Overwrite(m, b) ==
    LET doe == Get(b, "doe_tag")
        dt == b.date_bred
    IN  IF TruthyText(doe) /\ TruthyDate(dt)
        THEN LET d == IF dt.t = "date" THEN dt ELSE fromisoformat_str(dt)
             IN  IF d = ValueError THEN m
                 ELSE [k \in DOMAIN m \cup {doe} |-> IF k = doe THEN d ELSE m[k]]
        ELSE m

\* One step of the loop building last_bred: breeding b folded into map m.
LastBredStep(m, b) ==
    LET doe == Get(b, "doe_tag")
        dt == b.date_bred
    IN  IF TruthyText(doe) /\ TruthyDate(dt)
        THEN LET d == IF dt.t = "date" THEN dt ELSE fromisoformat_str(dt)
             IN  IF d = ValueError THEN m
                 ELSE IF doe \notin DOMAIN m \/ DateGT(d, m[doe])
                      THEN [k \in DOMAIN m \cup {doe} |-> IF k = doe THEN d ELSE m[k]]
                      ELSE m
        ELSE m

\* last_bred after the first n breedings.
RECURSIVE LastBred(_, _)
LastBred(breedings, n) ==
    IF n = 0 THEN EmptyMap ELSE LastBredStep(LastBred(breedings, n - 1), breedings[n])

\* DoeTooYoung with the threshold exclusive.
DoeTooYoung_Exclusive(doe, params, now) ==
    LET a == age_in_days(doe, now)
    IN  a.known /\ a.days <= params.min_doe_age_days

\* The doe is passed over by the age check.
DoeTooYoung(doe, params, now) ==
    LET a == age_in_days(doe, now)
    IN  a.known /\ a.days < params.min_doe_age_days

\* The doe is passed over by the cooldown check.
InCooldown(doe, last_bred, params, now) ==
    /\ Get(doe, "tag") \in DOMAIN last_bred
    /\ DaysBetween(now, last_bred[Get(doe, "tag")]) < params.cooldown_days

\* The buck is passed over by the age check.
BuckTooYoung(buck, params, now) ==
    LET a == age_in_days(buck, now)
    IN  a.known /\ a.days < params.min_buck_age_days

\* Related without the check of the doe among the buck's parents.
Related_OneWay(doe, buck) ==
    \/ Get(buck, "tag") = Get(doe, "tag")
    \/ Get(buck, "tag") \in {Get(doe, "sire_tag"), Get(doe, "dam_tag")}

\* The buck is passed over as the doe itself or an immediate relative.
Related(doe, buck) ==
    \/ Get(buck, "tag") = Get(doe, "tag")
    \/ Get(buck, "tag") \in {Get(doe, "sire_tag"), Get(doe, "dam_tag")}
    \/ Get(doe, "tag") \in {Get(buck, "sire_tag"), Get(buck, "dam_tag")}

Pair(doe, buck, now) ==
    [doe_tag |-> Get(doe, "tag"),
     buck_tag |-> Get(buck, "tag"),
     reason |-> "Meets age and cooldown; not closely related",
     expected_kindling |-> isoformat(AddDays(now, GestationDays))]

\* ScanBucks going on after a compatible buck: the last one wins.
RECURSIVE ScanBucks_Last(_, _, _, _, _)
ScanBucks_Last(doe, bucks, j, params, now) ==
    IF j > Len(bucks) THEN <<>>
    ELSE LET rest == ScanBucks_Last(doe, bucks, j + 1, params, now)
         IN  IF BuckTooYoung(bucks[j], params, now) \/ Related(doe, bucks[j])
             THEN rest
             ELSE IF rest # <<>> THEN rest ELSE <<Pair(doe, bucks[j], now)>>

\* The inner loop from buck j on: the pair with the first compatible buck,
\* or nothing.
RECURSIVE ScanBucks(_, _, _, _, _)
ScanBucks(doe, bucks, j, params, now) ==
    IF j > Len(bucks) THEN <<>>
    ELSE IF BuckTooYoung(bucks[j], params, now) \/ Related(doe, bucks[j])
         THEN ScanBucks(doe, bucks, j + 1, params, now)
         ELSE <<Pair(doe, bucks[j], now)>>

\* The outer loop from doe i on.
RECURSIVE ScanDoes(_, _, _, _, _, _)
ScanDoes(does, bucks, last_bred, i, params, now) ==
    IF i > Len(does) THEN <<>>
    ELSE (IF DoeTooYoung(does[i], params, now)
             \/ InCooldown(does[i], last_bred, params, now)
          THEN <<>>
          ELSE ScanBucks(does[i], bucks, 1, params, now))
         \o ScanDoes(does, bucks, last_bred, i + 1, params, now)

\* TaskFor tagging the task to the buck.
TaskFor_Buck(p, now) ==
    [title |-> <<"Breed ", p.doe_tag, " to ", p.buck_tag>>,
     due_date |-> isoformat(now),
     assigned_to |-> "breeding",
     rabbit_tag |-> p.buck_tag,
     status |-> "todo",
     notes |-> <<"Expected kindling ", p.expected_kindling>>]

TaskFor(p, now) ==
    [title |-> <<"Breed ", p.doe_tag, " to ", p.buck_tag>>,
     due_date |-> isoformat(now),
     assigned_to |-> "breeding",
     rabbit_tag |-> p.doe_tag,
     status |-> "todo",
     notes |-> <<"Expected kindling ", p.expected_kindling>>]

\* The body breeding_plan returns for a store, the parameters and the day.
PlanBody(store, params, now) ==
    LET rabbits == to_dict_list(get_documents(store, collection_name("Rabbit"), NoFilter, NoLimit))
        does == SelectSeq(rabbits, IsDoe)
        bucks == SelectSeq(rabbits, IsBuck)
        breedings == to_dict_list(get_documents(store, collection_name("Breeding"), NoFilter, NoLimit))
        last_bred == LastBred(breedings, Len(breedings))
        suggested_pairs == ScanDoes(does, bucks, last_bred, 1, params, now)
        tasks == [k \in 1..Len(suggested_pairs) |-> TaskFor(suggested_pairs[k], now)]
    IN  [suggested_pairs |-> suggested_pairs,
         tasks |-> tasks,
         summary |-> [eligible_does |-> Len(does),
                      eligible_bucks |-> Len(bucks),
                      suggested_count |-> Len(suggested_pairs)]]

\* schemas.py BreedingPlanInput: three integers, each >= 0.
ValidPlanInput(params) ==
    /\ params.min_doe_age_days >= 0
    /\ params.min_buck_age_days >= 0
    /\ params.cooldown_days >= 0

PlanInput(doe_age, buck_age, cooldown) ==
    [min_doe_age_days |-> doe_age, min_buck_age_days |-> buck_age,
     cooldown_days |-> cooldown]

Rejected == [outcome |-> "rejected", body |-> <<>>]

Ok(body) == [outcome |-> "ok", body |-> body]

\* breeding_plan storing the tasks it suggests.
breeding_plan_Persisting(params) ==
    /\ request' = [op |-> "breeding_plan", params |-> params]
    /\ response' = IF ValidPlanInput(params) THEN Ok(PlanBody(db, params, today))
                   ELSE Rejected
    /\ db' = IF ValidPlanInput(params)
             THEN InsertAll(db, "task", PlanBody(db, params, today).tasks, 1)
             ELSE db
    /\ UNCHANGED today

\* POST /agents/breeding/plan
breeding_plan(params) ==
    /\ request' = [op |-> "breeding_plan", params |-> params]
    /\ response' = IF ValidPlanInput(params) THEN Ok(PlanBody(db, params, today))
                   ELSE Rejected
    /\ UNCHANGED <<db, today>>

(***************************************************************************)
(* The medication schedules (main.py list_medication).                     *)
(***************************************************************************)
LimitMin == 1

LimitMax == 200

\* Query(None, ge=1, le=200): a limit is absent or within the range.
ValidLimit(limit) == limit = NoLimit \/ (limit[1] >= LimitMin /\ limit[1] <= LimitMax)

MedDoc(tag, name, sd, ed) ==
    [rabbit_tag |-> tag, med_name |-> name, start_date |-> sd, end_date |-> ed]

Failed == [outcome |-> "error", body |-> <<>>]

\* The filter of a list endpoint: the truthy parameters, by field name.
FilterOf(args) == [k \in {x \in DOMAIN args : TruthyText(args[x])} |-> args[k]]

\* "x or y" for an optional date.
OrElse(x, y) == IF x = NoneDate THEN y ELSE x

\* The start date of a record as line 193 reads it: parsed outside any try,
\* so an unparseable text is a ValueError that leaves the handler.
StartDate(r) ==
    IF TruthyDate(r.start_date) THEN fromisoformat_str(r.start_date) ELSE NoneDate

\* The end date of a record as lines 194-199 read it: an unparseable text
\* is caught and read as None.
EndDate(r) ==
    IF TruthyDate(r.end_date)
    THEN LET d == fromisoformat_str(r.end_date)
         IN  IF d = ValueError THEN NoneDate ELSE d
    ELSE NoneDate

\* The test of line 200.
InWindow(sd, ed, today_date) ==
    /\ sd # NoneDate
    /\ DateLE(sd, today_date)
    /\ (ed = NoneDate \/ DateLE(today_date, ed))

\* The loop of lines 192-201 from record i on: the active records, and
\* whether a start date that does not parse raised a ValueError.
RECURSIVE ActiveFrom(_, _, _)
ActiveFrom(records, i, today_date) ==
    IF i > Len(records) THEN [raised |-> FALSE, active |-> <<>>]
    ELSE LET sd == StartDate(records[i])
         IN  IF sd = ValueError THEN [raised |-> TRUE, active |-> <<>>]
             ELSE LET rest == ActiveFrom(records, i + 1, today_date)
                  IN  IF rest.raised THEN rest
                      ELSE IF InWindow(sd, EndDate(records[i]), today_date)
                           THEN [rest EXCEPT !.active = <<records[i]>> \o @]
                           ELSE rest

\* The response of list_medication.
MedicationResponse(store, args, now) ==
    LET docs == get_documents(store, collection_name("MedicationSchedule"),
                              FilterOf([rabbit_tag |-> args.rabbit_tag]), args.limit)
        records == to_dict_list(docs)
    IN  IF args.active_only
        THEN LET today_date == OrElse(parse_date_safe(args.today), now)
                 loop == ActiveFrom(records, 1, today_date)
             IN  IF loop.raised THEN Failed ELSE Ok(loop.active)
        ELSE Ok(records)

\* GET /medication
list_medication(args) ==
    /\ request' = [op |-> "list_medication", args |-> args]
    /\ response' = IF ValidLimit(args.limit) THEN MedicationResponse(db, args, today)
                   ELSE Rejected
    /\ UNCHANGED <<db, today>>

(***************************************************************************)
(* The symptom checker (main.py symptom_check).  A submitted phrase is a   *)
(* record [body, caps, pad]: body is its text trimmed and in lower case,   *)
(* caps tells that it was written with capitals, pad that it was written   *)
(* with surrounding blanks.                                                *)
(***************************************************************************)
Phrase(b) == [body |-> b, caps |-> FALSE, pad |-> FALSE]

strip(s) == [s EXCEPT !.pad = FALSE]

lower(s) == [s EXCEPT !.caps = FALSE]

\* Truthiness of a str: the empty text is falsy, a blank one is not.
TruthyPhrase(s) == s.body # "" \/ s.pad

Range(f) == {f[i] : i \in DOMAIN f}

HistoryLimit == 10

rules ==
    <<[match_any |-> {Phrase("diarrhea"), Phrase("runny stool")},
       condition |-> "Enteritis/Diarrhea",
       severity |-> "medium",
       actions |-> <<"Isolate affected rabbit and ensure hydration",
                     "Remove fresh greens; offer hay and water",
                     "Consult vet for antidiarrheals if severe or persistent">>,
       tips |-> <<"Monitor stool consistency and appetite daily">>],
      [match_any |-> {Phrase("head tilt"), Phrase("nystagmus"), Phrase("loss of balance")},
       condition |-> "Possible E. cuniculi or inner ear infection",
       severity |-> "high",
       actions |-> <<"Seek veterinary evaluation promptly",
                     "Minimize stress and provide safe padded area">>,
       tips |-> <<"Record onset time and any trauma history">>],
      [match_any |-> {Phrase("sneezing"), Phrase("nasal discharge"), Phrase("runny nose")},
       condition |-> "Upper respiratory signs",
       severity |-> "medium",
       actions |-> <<"Check environment (dust, ammonia, drafts)",
                     "Consult vet; avoid penicillins orally in rabbits">>,
       tips |-> <<"Track temperature and breathing effort">>],
      [match_any |-> {Phrase("not eating"), Phrase("anorexia"), Phrase("no feces"), Phrase("bloat")},
       condition |-> "GI stasis",
       severity |-> "high",
       actions |-> <<"Urgent vet care if severe; encourage hydration",
                     "Provide safe warmth and gentle tummy massage if trained">>,
       tips |-> <<"Log fecal output and weight every 12h">>],
      [match_any |-> {Phrase("mites"), Phrase("itching"), Phrase("flaky skin"), Phrase("crusty ears")},
       condition |-> "Parasites (fur/ear mites)",
       severity |-> "low",
       actions |-> <<"Topical ivermectin or selamectin per vet guidance",
                     "Clean environment; treat in-contact rabbits">>,
       tips |-> <<"Recheck in 7-14 days">>]>>

\* Line 315: the set of the trimmed, lower-cased phrases that are not blank.
Normalized(symptoms) ==
    {lower(strip(s)) : s \in {x \in Range(symptoms) : TruthyPhrase(strip(x))}}

\* Line 373: the rule matches when it shares a phrase with the symptoms.
RuleMatches(symptoms, rule) == symptoms \cap rule.match_any # {}

Finding(rule) ==
    [condition |-> rule.condition,
     severity |-> rule.severity,
     immediate_actions |-> rule.actions,
     monitoring_tips |-> rule.tips]

\* The loop of lines 372-379 from rule i on.
RECURSIVE FindingsFrom(_, _)
FindingsFrom(symptoms, i) ==
    IF i > Len(rules) THEN <<>>
    ELSE (IF RuleMatches(symptoms, rules[i]) THEN <<Finding(rules[i])>> ELSE <<>>)
         \o FindingsFrom(symptoms, i + 1)

\* OverallSeverity testing "medium" before "high".
OverallSeverity_MediumFirst(findings) ==
    IF \E i \in DOMAIN findings : findings[i].severity = "medium" THEN "medium"
    ELSE IF \E i \in DOMAIN findings : findings[i].severity = "high" THEN "high"
    ELSE "low"

\* Lines 381-385.
OverallSeverity(findings) ==
    IF \E i \in DOMAIN findings : findings[i].severity = "high" THEN "high"
    ELSE IF \E i \in DOMAIN findings : findings[i].severity = "medium" THEN "medium"
    ELSE "low"

\* The orders list(symptoms) may give a set.
Orders(S) == {f \in [1..Cardinality(S) -> S] : \A i, j \in DOMAIN f : i # j => f[i] # f[j]}

SymptomBody(store, payload, order) ==
    LET symptoms == Normalized(payload.symptoms)
        findings == FindingsFrom(symptoms, 1)
        history ==
            IF TruthyText(payload.rabbit_tag)
            THEN to_dict_list(get_documents(store, collection_name("HealthRecord"),
                                            [rabbit_tag |-> payload.rabbit_tag],
                                            <<HistoryLimit>>))
            ELSE <<>>
    IN  [rabbit_tag |-> payload.rabbit_tag,
         reported_symptoms |-> order,
         probable_conditions |-> findings,
         overall_severity |-> OverallSeverity(findings),
         history |-> history,
         disclaimer |-> "This is guidance only and not a diagnosis. Consult a veterinarian."]

\* POST /agents/health/check
symptom_check(payload) ==
    /\ request' = [op |-> "symptom_check", payload |-> payload]
    /\ \E order \in Orders(Normalized(payload.symptoms)) :
          response' = Ok(SymptomBody(db, payload, order))
    /\ UNCHANGED <<db, today>>

(***************************************************************************)
(* The day of the requests and the inputs of the checks of one handler.    *)
(* Each of these specifications draws a store and answers one request on   *)
(* it: the handlers checked leave the store as it is, so a second request  *)
(* would reach no state the first does not.                                *)
(***************************************************************************)
Today == DateObj(2024, 3, 1)

Idle == [op |-> "none"]

\* Rabbits for the matching checks: two tags shared by does and bucks,
\* parents recorded as sire or as dam, one buck one day short of the
\* default minimum age, one buck of a tag of its own.
MatchRabbits ==
    {RabbitDoc(t, "doe", "active", NoneDate, par[1], par[2]) :
        t \in {"A", "B"}, par \in {<<None, None>>, <<"B", None>>, <<None, "B">>}}
    \cup
    {RabbitDoc(t, "buck", "active", NoneDate, par[1], par[2]) :
        t \in {"A", "B"}, par \in {<<None, None>>, <<"A", None>>, <<None, "A">>}}
    \cup
    {RabbitDoc("B", "buck", "active", IsoText(<<2023, 9, 30>>), None, None),
     RabbitDoc("C", "buck", "active", NoneDate, None, None)}

MatchParams == {PlanInput(DefaultMinDoeAge, b, DefaultCooldown) : b \in {0, DefaultMinBuckAge}}

InitMatch ==
    /\ \E rs \in SeqsUpTo(MatchRabbits, MaxRabbits) :
          db = InsertAll(EmptyDb, "rabbit", rs, 1)
    /\ today = Today
    /\ request = Idle
    /\ response = Idle

NextMatch == response = Idle /\ \E params \in MatchParams : breeding_plan(params)

SpecMatch == InitMatch /\ [][NextMatch]_vars

\* Rabbits for the age checks: every rabbit has the tag of its place in the
\* collection (tags are unique); does born 154 and 153 days before Today,
\* without a dob, with an empty and with an unparseable one ("2023-02-30").
TagNames == <<"R1", "R2", "R3", "R4", "R5", "R6">>

AgeDobs ==
    {NoneDate, IsoText(<<>>), IsoText(<<2023, 9, 29>>), DateObj(2023, 9, 30),
     IsoText(<<2023, 2, 30>>)}

AgeRabbits ==
    {RabbitDoc(None, "doe", st, dob, None, None) : st \in {"active", "sold"}, dob \in AgeDobs}
    \cup
    {RabbitDoc(None, "buck", st, NoneDate, None, None) : st \in {AbsentKey, "sold"}}

Tagged(rs) == [i \in 1..Len(rs) |-> [rs[i] EXCEPT !.tag = TagNames[i]]]

AgeParams ==
    {PlanInput(a, DefaultMinBuckAge, DefaultCooldown) : a \in {153, DefaultMinDoeAge}}

InitAge ==
    /\ \E rs \in SeqsUpTo(AgeRabbits, MaxRabbits) :
          db = InsertAll(EmptyDb, "rabbit", Tagged(rs), 1)
    /\ today = Today
    /\ request = Idle
    /\ response = Idle

NextAge == response = Idle /\ \E params \in AgeParams : breeding_plan(params)

SpecAge == InitAge /\ [][NextAge]_vars

\* Breedings for the cooldown checks: two does and a buck, breedings of
\* either doe 14, 13 and 12 days before Today, with an unparseable date
\* ("2024-02-30") and without a date.
CooldownRabbits ==
    <<RabbitDoc("R1", "doe", "active", NoneDate, None, None),
      RabbitDoc("R2", "doe", "active", NoneDate, None, None),
      RabbitDoc("R3", "buck", "active", NoneDate, None, None)>>

CooldownBreedings ==
    {BreedingDoc(t, "R3", dt) :
        t \in {"R1", "R2"},
        dt \in {DateObj(2024, 2, 16), IsoText(<<2024, 2, 17>>), DateObj(2024, 2, 18),
                IsoText(<<2024, 2, 30>>), NoneDate}}

CooldownParams ==
    {PlanInput(DefaultMinDoeAge, DefaultMinBuckAge, c) : c \in {13, DefaultCooldown}}

InitCooldown ==
    /\ \E bs \in SeqsUpTo(CooldownBreedings, MaxBreedings) :
          db = InsertAll(InsertAll(EmptyDb, "rabbit", CooldownRabbits, 1), "breeding", bs, 1)
    /\ today = Today
    /\ request = Idle
    /\ response = Idle

NextCooldown == response = Idle /\ \E params \in CooldownParams : breeding_plan(params)

SpecCooldown == InitCooldown /\ [][NextCooldown]_vars

(***************************************************************************)
(* What the properties of the breeding planner are stated with: the        *)
(* stored rabbits and breedings read directly, not through the planner.    *)
(***************************************************************************)
PlanDone == request.op = "breeding_plan" /\ response.outcome = "ok"

StoredRabbits == db["rabbit"]

StoredBreedings == db["breeding"]

\* The date a stored date value stands for, NoneDate when it stands for none.
DateOf(x) ==
    IF x.t = "date" THEN x
    ELSE IF x.t = "str" /\ fromisoformat(x.v) # ValueError THEN fromisoformat(x.v)
    ELSE NoneDate

HasKnownAge(r) == DateOf(r.dob) # NoneDate

KnownAge(r) == toordinal(today) - toordinal(DateOf(r.dob))

StatusOf(r) == IF r.status = AbsentKey THEN "active" ELSE r.status

CandidateDoes ==
    {i \in DOMAIN StoredRabbits :
        StoredRabbits[i].sex = "doe" /\ StatusOf(StoredRabbits[i]) = "active"}

CandidateBucks ==
    {j \in DOMAIN StoredRabbits :
        StoredRabbits[j].sex = "buck" /\ StatusOf(StoredRabbits[j]) = "active"}

UniqueTags ==
    \A i, j \in DOMAIN StoredRabbits :
        i # j => StoredRabbits[i].tag # StoredRabbits[j].tag

\* Buck j passes the buck age check, the same-tag check and the
\* parent/offspring check for doe i.
BuckPasses(i, j) ==
    LET D == StoredRabbits[i]
        B == StoredRabbits[j]
    IN  /\ HasKnownAge(B) => KnownAge(B) >= request.params.min_buck_age_days
        /\ B.tag # D.tag
        /\ B.tag # D.sire_tag /\ B.tag # D.dam_tag
        /\ D.tag # B.sire_tag /\ D.tag # B.dam_tag

HasBuck(i) == \E j \in CandidateBucks : BuckPasses(i, j)

FirstBuck(i) ==
    CHOOSE j \in CandidateBucks :
        BuckPasses(i, j) /\ \A k \in CandidateBucks : k < j => ~BuckPasses(i, k)

DoeAgeOk(i) ==
    HasKnownAge(StoredRabbits[i])
        => KnownAge(StoredRabbits[i]) >= request.params.min_doe_age_days

\* The dates of the breedings that reference the doe's tag.
BredDates(i) ==
    {DateOf(StoredBreedings[n].date_bred) :
        n \in {m \in DOMAIN StoredBreedings :
                  /\ StoredBreedings[m].doe_tag = StoredRabbits[i].tag
                  /\ DateOf(StoredBreedings[m].date_bred) # NoneDate}}

MostRecentBred(i) ==
    CHOOSE d \in BredDates(i) : \A e \in BredDates(i) : toordinal(e) <= toordinal(d)

DaysSinceBred(i) == toordinal(today) - toordinal(MostRecentBred(i))

CooldownOk(i) ==
    BredDates(i) # {} => DaysSinceBred(i) >= request.params.cooldown_days

Pairs == response.body.suggested_pairs

InPairs(i) == \E k \in DOMAIN Pairs : Pairs[k].doe_tag = StoredRabbits[i].tag

\* The strictly increasing maps from the places of the pairs to the
\* candidate does: each pair given a doe of its own, in input order.
DoeAssignments ==
    {f \in [DOMAIN Pairs -> CandidateDoes] :
        \A k, l \in DOMAIN Pairs : k < l => f[k] < f[l]}

(***************************************************************************)
(* C1: in one breeding_plan call every candidate doe gets at most one      *)
(* pair, and the buck of a pair is the first buck, in the order of the     *)
(* rabbit collection, that passes the buck age check, the same-tag check   *)
(* and the parent/offspring check for that doe.                            *)
(***************************************************************************)
C1_FirstEligibleBuck ==
    PlanDone =>
        \E f \in DoeAssignments :
            \A k \in DOMAIN Pairs :
                /\ Pairs[k].doe_tag = StoredRabbits[f[k]].tag
                /\ HasBuck(f[k])
                /\ Pairs[k].buck_tag = StoredRabbits[FirstBuck(f[k])].tag

\* A pair is suggested for a doe whose first passing buck comes after a
\* candidate buck that does not pass.
C1_Witness ==
    /\ PlanDone
    /\ Len(Pairs) >= 1
    /\ \E i \in CandidateDoes :
          /\ InPairs(i)
          /\ HasBuck(i)
          /\ \E k \in CandidateBucks : k < FirstBuck(i)

(***************************************************************************)
(* C2: for every suggested pair there are a candidate doe D and a          *)
(* candidate buck B with the pair's tags such that B's tag differs from    *)
(* D's tag, B's tag is neither D's sire_tag nor D's dam_tag, and D's tag   *)
(* is neither B's sire_tag nor B's dam_tag.                                *)
(***************************************************************************)
C2_RelatednessSymmetric ==
    PlanDone =>
        \A k \in DOMAIN Pairs :
            \E i \in CandidateDoes, j \in CandidateBucks :
                LET D == StoredRabbits[i]
                    B == StoredRabbits[j]
                IN  /\ Pairs[k].doe_tag = D.tag
                    /\ Pairs[k].buck_tag = B.tag
                    /\ B.tag # D.tag
                    /\ B.tag \notin {D.sire_tag, D.dam_tag}
                    /\ D.tag \notin {B.sire_tag, B.dam_tag}

\* A plan that suggests a pair although an earlier buck is the doe's
\* offspring (the doe is the buck's recorded sire or dam).
C2_Witness ==
    /\ PlanDone
    /\ Len(Pairs) >= 1
    /\ \E i \in CandidateDoes, j \in CandidateBucks :
          /\ StoredRabbits[i].tag \in {StoredRabbits[j].sire_tag, StoredRabbits[j].dam_tag}
          /\ StoredRabbits[j].tag # StoredRabbits[i].tag
          /\ InPairs(i)

(***************************************************************************)
(* C10: the tasks of a plan are parallel to its suggested pairs: as many   *)
(* tasks as pairs (the summary's suggested_count), the i-th task tagged to *)
(* the i-th pair's doe, titled with that pair's doe and buck, status       *)
(* "todo", assigned to "breeding"; the pairs are in the input order of     *)
(* their does.                                                             *)
(***************************************************************************)
C10_TasksParallel ==
    PlanDone =>
        LET tasks == response.body.tasks
        IN  /\ Len(tasks) = Len(Pairs)
            /\ response.body.summary.suggested_count = Len(Pairs)
            /\ \A i \in DOMAIN Pairs :
                  /\ tasks[i].rabbit_tag = Pairs[i].doe_tag
                  /\ tasks[i].title = <<"Breed ", Pairs[i].doe_tag, " to ", Pairs[i].buck_tag>>
                  /\ tasks[i].status = "todo"
                  /\ tasks[i].assigned_to = "breeding"
            /\ \E f \in DoeAssignments :
                  \A k \in DOMAIN Pairs : Pairs[k].doe_tag = StoredRabbits[f[k]].tag

\* A plan with two pairs, for two does of different tags.
C10_Witness ==
    /\ PlanDone
    /\ Len(Pairs) = 2
    /\ Pairs[1].doe_tag # Pairs[2].doe_tag
    /\ Len(response.body.tasks) = 2

(***************************************************************************)
(* C3: the doe age threshold is inclusive.  With unique tags, a candidate  *)
(* doe whose known age is below min_doe_age_days (one day below it in      *)
(* particular) is in no suggested pair; a candidate doe whose known age is *)
(* min_doe_age_days or more, or whose dob is absent or unparseable, is not *)
(* passed over for her age: she is in a pair whenever she is out of        *)
(* cooldown and some buck passes for her.                                  *)
(***************************************************************************)
C3_DoeAgeInclusive ==
    (PlanDone /\ UniqueTags) =>
        \A i \in CandidateDoes :
            LET D == StoredRabbits[i]
                min == request.params.min_doe_age_days
            IN  /\ (HasKnownAge(D) /\ KnownAge(D) < min) => ~InPairs(i)
                /\ (HasKnownAge(D) /\ KnownAge(D) = min - 1) => ~InPairs(i)
                /\ (HasKnownAge(D) /\ KnownAge(D) = min /\ CooldownOk(i) /\ HasBuck(i))
                      => InPairs(i)
                /\ (HasKnownAge(D) /\ KnownAge(D) > min /\ CooldownOk(i) /\ HasBuck(i))
                      => InPairs(i)
                /\ (~HasKnownAge(D) /\ CooldownOk(i) /\ HasBuck(i)) => InPairs(i)

\* A plan over a doe exactly min_doe_age_days old, who is in a pair, and a
\* doe one day younger, who is not.
C3_Witness ==
    /\ PlanDone
    /\ UniqueTags
    /\ \E i, i2 \in CandidateDoes :
          /\ HasKnownAge(StoredRabbits[i])
          /\ KnownAge(StoredRabbits[i]) = request.params.min_doe_age_days
          /\ InPairs(i)
          /\ HasKnownAge(StoredRabbits[i2])
          /\ KnownAge(StoredRabbits[i2]) = request.params.min_doe_age_days - 1
          /\ ~InPairs(i2)

(***************************************************************************)
(* C5 as stated: when no rabbit passes the doe base filter or none passes  *)
(* the buck base filter, the plan has no suggested pair and all three      *)
(* counts of its summary (eligible_does, eligible_bucks, suggested_count)  *)
(* are 0.                                                                  *)
(***************************************************************************)
C5_AllCountsZero ==
    (PlanDone /\ (CandidateDoes = {} \/ CandidateBucks = {})) =>
        /\ Pairs = <<>>
        /\ response.body.summary.eligible_does = 0
        /\ response.body.summary.eligible_bucks = 0
        /\ response.body.summary.suggested_count = 0

(***************************************************************************)
(* C5 as amended: when no rabbit passes the doe base filter or none passes *)
(* the buck base filter, the plan has no suggested pair and no task,       *)
(* suggested_count is 0, and eligible_does and eligible_bucks are the      *)
(* numbers of candidate does and bucks: 0 for a side without candidates,   *)
(* not for the other.                                                      *)
(***************************************************************************)
C5_NoCandidatesEmptyPlan ==
    (PlanDone /\ (CandidateDoes = {} \/ CandidateBucks = {})) =>
        /\ Pairs = <<>>
        /\ response.body.tasks = <<>>
        /\ response.body.summary.suggested_count = 0
        /\ response.body.summary.eligible_does = Cardinality(CandidateDoes)
        /\ response.body.summary.eligible_bucks = Cardinality(CandidateBucks)
        /\ CandidateDoes = {} => response.body.summary.eligible_does = 0
        /\ CandidateBucks = {} => response.body.summary.eligible_bucks = 0

\* A plan over a store whose only doe is sold, beside an active buck.
C5_Witness ==
    /\ PlanDone
    /\ CandidateDoes = {}
    /\ CandidateBucks # {}
    /\ \E i \in DOMAIN StoredRabbits : StoredRabbits[i].sex = "doe"

(***************************************************************************)
(* C4: the cooldown is measured from the most recent date_bred among the   *)
(* Breeding records that reference the doe's tag, whatever their order,    *)
(* and its threshold is inclusive.  With unique tags, a candidate doe last *)
(* bred fewer than cooldown_days days ago (cooldown_days - 1 in            *)
(* particular) is in no pair; one last bred exactly cooldown_days days ago *)
(* is not passed over for it: she is in a pair whenever her age and some   *)
(* buck pass.                                                              *)
(***************************************************************************)
C4_CooldownInclusive ==
    (PlanDone /\ UniqueTags) =>
        \A i \in CandidateDoes :
            BredDates(i) # {} =>
                LET c == request.params.cooldown_days
                IN  /\ DaysSinceBred(i) < c => ~InPairs(i)
                    /\ DaysSinceBred(i) = c - 1 => ~InPairs(i)
                    /\ (DaysSinceBred(i) = c /\ DoeAgeOk(i) /\ HasBuck(i)) => InPairs(i)
                    /\ (DaysSinceBred(i) > c /\ DoeAgeOk(i) /\ HasBuck(i)) => InPairs(i)

\* A plan over a doe whose most recent breeding is stored before an older
\* one and is exactly cooldown_days old, so that she is in a pair, beside a
\* doe last bred cooldown_days - 1 days ago, who is not.
C4_Witness ==
    /\ PlanDone
    /\ UniqueTags
    /\ \E i, i2 \in CandidateDoes :
          /\ BredDates(i) # {}
          /\ DaysSinceBred(i) = request.params.cooldown_days
          /\ InPairs(i)
          /\ \E m, n \in DOMAIN StoredBreedings :
                /\ m < n
                /\ StoredBreedings[m].doe_tag = StoredRabbits[i].tag
                /\ StoredBreedings[n].doe_tag = StoredRabbits[i].tag
                /\ DateOf(StoredBreedings[m].date_bred) = MostRecentBred(i)
                /\ DateOf(StoredBreedings[n].date_bred) # NoneDate
                /\ DateOf(StoredBreedings[n].date_bred) # MostRecentBred(i)
          /\ BredDates(i2) # {}
          /\ DaysSinceBred(i2) = request.params.cooldown_days - 1
          /\ ~InPairs(i2)

(***************************************************************************)
(* The medication checks: schedules of two rabbits that started 5 days     *)
(* before Today, start the day after Today or have an unparseable start    *)
(* ("2024-02-30"); without an end, ended the day before Today, ending      *)
(* Today, or with an unparseable end ("2024-13-01").                       *)
(***************************************************************************)
MedDocs ==
    {MedDoc(t, "med", sd, ed) :
        t \in {"A", "B"},
        sd \in {DateObj(2024, 2, 25), IsoText(<<2024, 3, 2>>), IsoText(<<2024, 2, 30>>)},
        ed \in {NoneDate, DateObj(2024, 2, 29), IsoText(<<2024, 3, 1>>),
                IsoText(<<2024, 13, 1>>)}}

MedArgs ==
    {[rabbit_tag |-> t, active_only |-> a, today |-> td, limit |-> l] :
        t \in {None, "A"},
        a \in BOOLEAN,
        td \in {NoneDate, IsoText(<<2024, 2, 28>>), IsoText(<<2024, 2, 30>>)},
        l \in {NoLimit, <<1>>, <<0>>}}

InitMed ==
    /\ \E ms \in SeqsUpTo(MedDocs, MaxMeds) :
          db = InsertAll(EmptyDb, "medicationschedule", ms, 1)
    /\ today = Today
    /\ request = Idle
    /\ response = Idle

NextMed == response = Idle /\ \E args \in MedArgs : list_medication(args)

SpecMed == InitMed /\ [][NextMed]_vars

MedDone == request.op = "list_medication" /\ ValidLimit(request.args.limit)

\* The records list_medication fetched: the stored schedules of the asked
\* rabbit (all of them when none is asked), cut at the limit, identifiers
\* rendered as text.
Fetched ==
    LET all == db["medicationschedule"]
        tag == request.args.rabbit_tag
        mine == SelectSeq(all, LAMBDA d : tag \in {None, ""} \/ d.rabbit_tag = tag)
        cut == IF request.args.limit = NoLimit \/ request.args.limit[1] >= Len(mine)
               THEN mine ELSE SubSeq(mine, 1, request.args.limit[1])
    IN  [i \in 1..Len(cut) |-> [cut[i] EXCEPT !["_id"] = [hex |-> @.oid]]]

\* The day the window is measured at: the today parameter when it parses,
\* the current day otherwise.
WindowDay == IF DateOf(request.args.today) # NoneDate THEN DateOf(request.args.today) ELSE today

\* start_date <= today <= end_date, or start_date <= today with no end_date
\* (an unparseable end_date read as absent).
IsActive(r) ==
    /\ DateOf(r.start_date) # NoneDate
    /\ toordinal(DateOf(r.start_date)) <= toordinal(WindowDay)
    /\ (DateOf(r.end_date) = NoneDate
        \/ toordinal(WindowDay) <= toordinal(DateOf(r.end_date)))

Unparseable(x) == x.t = "str" /\ x.v # <<>> /\ fromisoformat(x.v) = ValueError

(***************************************************************************)
(* C6: an unparseable date never ends a request in an error: a             *)
(* list_medication request completes normally whatever the today           *)
(* parameter and the start_date and end_date of the stored records are.    *)
(***************************************************************************)
C6_DatesNeverRaise == MedDone => response.outcome = "ok"

\* What holds of the code: an unparseable today parameter or end_date is
\* swallowed; a request ends in an error exactly when active_only is set
\* and a fetched record has an unparseable start_date.
C6_OnlyStartDateRaises ==
    MedDone =>
        (response.outcome = "error"
            <=> (/\ request.args.active_only
                 /\ \E i \in DOMAIN Fetched : Unparseable(Fetched[i].start_date)))

(***************************************************************************)
(* C7: list_medication with active_only returns exactly the fetched        *)
(* schedules with start_date <= today <= end_date, or start_date <= today  *)
(* and no end_date, in their fetched order; without active_only it returns *)
(* every fetched record.                                                   *)
(***************************************************************************)
C7_ActiveWindowExact ==
    MedDone =>
        /\ response.outcome = "ok"
        /\ response.body = IF request.args.active_only
                           THEN SelectSeq(Fetched, IsActive)
                           ELSE Fetched

\* What holds of the code: every list_medication request that completes
\* returns exactly those records.
C7_ReturnedIsWindow ==
    (MedDone /\ response.outcome = "ok") =>
        response.body = IF request.args.active_only
                        THEN SelectSeq(Fetched, IsActive)
                        ELSE Fetched

\* An active_only request that returns a schedule started 5 days before
\* the day of the request with no end_date, and leaves out one that ended
\* the day before.
C7_Example ==
    /\ MedDone
    /\ request.args.active_only
    /\ request.args.today = NoneDate
    /\ response.outcome = "ok"
    /\ Len(Fetched) = 2
    /\ Len(response.body) = 1
    /\ \E i \in DOMAIN Fetched :
          /\ Fetched[i].start_date = DateObj(2024, 2, 25)
          /\ Fetched[i].end_date = NoneDate
          /\ response.body[1] = Fetched[i]
    /\ \E i \in DOMAIN Fetched :
          /\ Fetched[i].start_date = DateObj(2024, 2, 25)
          /\ Fetched[i].end_date = DateObj(2024, 2, 29)

(***************************************************************************)
(* The symptom checks: phrases of four of the five rules and one no rule   *)
(* knows, the empty phrase, each written plainly or with capitals and      *)
(* surrounding blanks; a store without or with health records.             *)
(***************************************************************************)
SymptomBodies == {"diarrhea", "head tilt", "sneezing", "bloat", "mites", "cough", ""}

RawSymptoms ==
    {[body |-> b, caps |-> FALSE, pad |-> FALSE] : b \in SymptomBodies}
    \cup
    {[body |-> b, caps |-> b # "", pad |-> TRUE] : b \in SymptomBodies}

HealthDoc(tag, d, condition) == [rabbit_tag |-> tag, record_date |-> d, condition |-> condition]

SymptomStores ==
    {EmptyDb,
     InsertAll(EmptyDb, "healthrecord",
               <<HealthDoc("A", DateObj(2024, 2, 1), "sneezing"),
                 HealthDoc("B", DateObj(2024, 2, 2), "bloat"),
                 HealthDoc("A", DateObj(2024, 2, 3), "diarrhea")>>, 1)}

InitSym ==
    /\ db \in SymptomStores
    /\ today = Today
    /\ request = Idle
    /\ response = Idle

NextSym ==
    /\ response = Idle
    /\ \E tag \in {None, "A"}, symptoms \in SeqsUpTo(RawSymptoms, MaxSymptoms) :
          symptom_check([rabbit_tag |-> tag, symptoms |-> symptoms])

SpecSym == InitSym /\ [][NextSym]_vars

SymDone == request.op = "symptom_check" /\ response.outcome = "ok"

\* The submitted phrases, trimmed and lower-cased, the blank ones left out.
Submitted ==
    {ph.body : ph \in Range(request.payload.symptoms)} \ {""}

Triggers(i) == {ph.body : ph \in rules[i].match_any}

MatchedRules == {i \in DOMAIN rules : Triggers(i) \cap Submitted # {}}

\* The k-th matched rule in the order of the rule table.
KthMatched(k) ==
    CHOOSE i \in MatchedRules : Cardinality({j \in MatchedRules : j < i}) = k - 1

SeverityRank(sev) == CASE sev = "high" -> 3 [] sev = "medium" -> 2 [] sev = "low" -> 1

Findings == response.body.probable_conditions

(***************************************************************************)
(* C8: symptom_check returns one finding for every rule whose trigger set  *)
(* shares a phrase with the normalized symptoms and for no other rule, in  *)
(* the order of the rule table; overall_severity is the highest severity   *)
(* among the findings (high > medium > low), "low" when there is none.     *)
(* {"diarrhea"} gives exactly the Enteritis/Diarrhea finding and overall   *)
(* "medium"; {"bloat", "head tilt"} gives two findings and overall "high". *)
(***************************************************************************)
C8_SymptomFindings ==
    SymDone =>
        /\ Len(Findings) = Cardinality(MatchedRules)
        /\ \A k \in DOMAIN Findings :
              /\ Findings[k].condition = rules[KthMatched(k)].condition
              /\ Findings[k].severity = rules[KthMatched(k)].severity
              /\ Findings[k].immediate_actions = rules[KthMatched(k)].actions
              /\ Findings[k].monitoring_tips = rules[KthMatched(k)].tips
        /\ MatchedRules = {} => response.body.overall_severity = "low"
        /\ MatchedRules # {} =>
              /\ \E i \in MatchedRules : rules[i].severity = response.body.overall_severity
              /\ \A i \in MatchedRules :
                    SeverityRank(rules[i].severity)
                        <= SeverityRank(response.body.overall_severity)
        /\ Submitted = {"diarrhea"} =>
              /\ Len(Findings) = 1
              /\ Findings[1].condition = "Enteritis/Diarrhea"
              /\ Findings[1].severity = "medium"
              /\ response.body.overall_severity = "medium"
        /\ Submitted = {"bloat", "head tilt"} =>
              /\ Len(Findings) = 2
              /\ response.body.overall_severity = "high"

\* A check of "bloat" and "head tilt", one written with capitals and
\* blanks, answered with two findings, the table's order not the
\* submission's, and overall "high".
C8_Witness ==
    /\ SymDone
    /\ Submitted = {"bloat", "head tilt"}
    /\ request.payload.symptoms[1].body = "bloat"
    /\ request.payload.symptoms[1].caps
    /\ Len(Findings) = 2
    /\ Findings[1].severity = "high"
    /\ Findings[2].condition = "GI stasis"
    /\ response.body.overall_severity = "high"

(***************************************************************************)
(* The create and list endpoints (main.py, lines 100-221) and the schemas  *)
(* that validate what is created (schemas.py).  A payload is the JSON      *)
(* body: its dates are texts, a field it does not give is AbsentKey (None  *)
(* for an optional date).  Of every schema the fields are kept that some   *)
(* handler reads or filters on.                                            *)
(***************************************************************************)
\* A date field of a schema: the text must name a day of the calendar.
ValidDate(x) == x.t = "str" /\ fromisoformat(x.v) # ValueError

\* An Optional[date] field.
ValidOptionalDate(x) == x = NoneDate \/ ValidDate(x)

\* The value a validated date field holds: a date object.
DateField(x) == IF x = NoneDate THEN NoneDate ELSE fromisoformat(x.v)

\* A required str field.
Given(x) == x # AbsentKey /\ x # None

\* A str field with a default.
Default(x, dflt) == IF x = AbsentKey THEN dflt ELSE x

\* schemas.py Rabbit
ValidRabbit(p) ==
    /\ Given(p.tag)
    /\ p.sex \in {"doe", "buck"}
    /\ ValidOptionalDate(p.dob)
    /\ p.status # None

RabbitOf(p) ==
    RabbitDoc(p.tag, p.sex, Default(p.status, "active"), DateField(p.dob),
              Default(p.sire_tag, None), Default(p.dam_tag, None))

\* schemas.py Breeding
ValidBreeding(p) == Given(p.doe_tag) /\ Given(p.buck_tag) /\ ValidDate(p.date_bred)

BreedingOf(p) == BreedingDoc(p.doe_tag, p.buck_tag, DateField(p.date_bred))

\* schemas.py MedicationSchedule
ValidMedication(p) ==
    /\ Given(p.rabbit_tag)
    /\ Given(p.med_name)
    /\ ValidDate(p.start_date)
    /\ ValidOptionalDate(p.end_date)

MedicationOf(p) ==
    MedDoc(p.rabbit_tag, p.med_name, DateField(p.start_date), DateField(p.end_date))

\* schemas.py HealthRecord
ValidHealthRecord(p) ==
    Given(p.rabbit_tag) /\ ValidDate(p.record_date) /\ Given(p.condition)

HealthRecordOf(p) == HealthDoc(p.rabbit_tag, DateField(p.record_date), p.condition)

LitterDoc(doe, kd, total, alive) ==
    [doe_tag |-> doe, kindling_date |-> kd, total_born |-> total, born_alive |-> alive]

\* schemas.py Litter
ValidLitter(p) ==
    /\ Given(p.doe_tag)
    /\ ValidDate(p.kindling_date)
    /\ p.total_born >= 0
    /\ p.born_alive >= 0

LitterOf(p) == LitterDoc(p.doe_tag, DateField(p.kindling_date), p.total_born, p.born_alive)

TaskDoc(title, due, who, tag, status, notes) ==
    [title |-> title, due_date |-> due, assigned_to |-> who, rabbit_tag |-> tag,
     status |-> status, notes |-> notes]

\* schemas.py Task (a title is the sequence of its pieces, never absent here)
ValidTask(p) == ValidOptionalDate(p.due_date) /\ p.status # None

TaskOf(p) ==
    TaskDoc(p.title, DateField(p.due_date), Default(p.assigned_to, None),
            Default(p.rabbit_tag, None), Default(p.status, "todo"), p.notes)

\* A create handler: the payload validated against its schema, the document
\* inserted and its identifier returned.  The store holds at most MaxDocs
\* documents.
Create(op, cls, payload, valid, doc) ==
    /\ valid => TotalDocs(db) < MaxDocs
    /\ request' = [op |-> op, payload |-> payload]
    /\ IF valid
       THEN /\ db' = create_document(db, collection_name(cls), doc)
            /\ response' = Ok([id |-> OidStr(NewId(db))])
       ELSE /\ db' = db
            /\ response' = Rejected
    /\ UNCHANGED today

\* A list handler: the documents matching the filter, at most limit.
List(op, cls, args, filt) ==
    /\ request' = [op |-> op, args |-> args]
    /\ response' = IF ValidLimit(args.limit)
                   THEN Ok(to_dict_list(get_documents(db, collection_name(cls), filt, args.limit)))
                   ELSE Rejected
    /\ UNCHANGED <<db, today>>

\* POST /rabbits
create_rabbit(payload) ==
    Create("create_rabbit", "Rabbit", payload, ValidRabbit(payload), RabbitOf(payload))

\* GET /rabbits
list_rabbits(args) ==
    List("list_rabbits", "Rabbit", args,
         FilterOf([tag |-> args.tag, sex |-> args.sex, status |-> args.status]))

\* POST /health
create_health_record(payload) ==
    Create("create_health_record", "HealthRecord", payload,
           ValidHealthRecord(payload), HealthRecordOf(payload))

\* GET /health
list_health_records(args) ==
    List("list_health_records", "HealthRecord", args,
         FilterOf([rabbit_tag |-> args.rabbit_tag]))

\* POST /breedings
create_breeding(payload) ==
    Create("create_breeding", "Breeding", payload, ValidBreeding(payload), BreedingOf(payload))

\* GET /breedings
list_breedings(args) ==
    List("list_breedings", "Breeding", args,
         FilterOf([doe_tag |-> args.doe_tag, buck_tag |-> args.buck_tag,
                   outcome |-> args.outcome]))

\* POST /litters
create_litter(payload) ==
    Create("create_litter", "Litter", payload, ValidLitter(payload), LitterOf(payload))

\* GET /litters: the kindling_date filter is set when the parameter parses.
list_litters(args) ==
    LET kd == parse_date_safe(args.kindling_date)
        byDoe == FilterOf([doe_tag |-> args.doe_tag])
    IN  List("list_litters", "Litter", args,
             IF kd # NoneDate
             THEN [k \in DOMAIN byDoe \cup {"kindling_date"} |->
                      IF k = "kindling_date" THEN kd ELSE byDoe[k]]
             ELSE byDoe)

\* POST /medication
create_medication(payload) ==
    Create("create_medication", "MedicationSchedule", payload,
           ValidMedication(payload), MedicationOf(payload))

\* POST /tasks
create_task(payload) ==
    Create("create_task", "Task", payload, ValidTask(payload), TaskOf(payload))

\* GET /tasks
list_tasks(args) ==
    List("list_tasks", "Task", args,
         FilterOf([status |-> args.status, assigned_to |-> args.assigned_to]))

(***************************************************************************)
(* The whole API: any sequence of requests on a store that starts empty.   *)
(***************************************************************************)
RabbitPayloads ==
    {RabbitDoc("A", "doe", AbsentKey, IsoText(<<2023, 9, 29>>), AbsentKey, AbsentKey),
     RabbitDoc("B", "buck", "active", NoneDate, AbsentKey, AbsentKey),
     RabbitDoc("C", "kit", "active", NoneDate, AbsentKey, AbsentKey),
     RabbitDoc("D", "doe", "active", IsoText(<<2023, 2, 30>>), AbsentKey, AbsentKey)}

BreedingPayloads ==
    {BreedingDoc("A", "B", IsoText(<<2024, 2, 17>>)), BreedingDoc("A", "B", NoneDate)}

MedPayloads ==
    {MedDoc("A", "med", IsoText(<<2024, 2, 25>>), NoneDate),
     MedDoc("A", "med", IsoText(<<2024, 2, 30>>), NoneDate)}

HealthPayloads ==
    {HealthDoc("A", IsoText(<<2024, 2, 3>>), "sneezing"),
     HealthDoc("A", NoneDate, "sneezing")}

LitterPayloads ==
    {LitterDoc("A", IsoText(<<2024, 2, 1>>), 6, 5),
     LitterDoc("A", IsoText(<<2024, 2, 1>>), 6, -1)}

TaskPayloads ==
    {TaskDoc(<<"Clean cages">>, NoneDate, "cleaning", AbsentKey, AbsentKey, <<>>),
     TaskDoc(<<"Clean cages">>, IsoText(<<2024, 2, 30>>), "cleaning", AbsentKey, AbsentKey, <<>>)}

\* The task stubs of the plan just answered, which its caller may post.
SuggestedTasks ==
    IF request.op = "breeding_plan" /\ response.outcome = "ok"
    THEN Range(response.body.tasks)
    ELSE {}

Limits == {NoLimit, <<1>>, <<0>>}

RabbitArgs ==
    {[tag |-> t, sex |-> x, status |-> None, limit |-> l] :
        t \in {None, "A"}, x \in {None, "buck"}, l \in {NoLimit}}
    \cup {[tag |-> None, sex |-> None, status |-> "active", limit |-> l] : l \in Limits}

TagArgs == {[rabbit_tag |-> t, limit |-> l] : t \in {None, "A"}, l \in {NoLimit, <<1>>}}

BreedingArgs ==
    {[doe_tag |-> d, buck_tag |-> b, outcome |-> None, limit |-> NoLimit] :
        d \in {None, "A"}, b \in {None, "Z"}}

LitterArgs ==
    {[doe_tag |-> d, kindling_date |-> k, limit |-> NoLimit] :
        d \in {None, "A"},
        k \in {NoneDate, IsoText(<<2024, 2, 1>>), IsoText(<<2024, 2, 30>>)}}

TaskArgs ==
    {[status |-> st, assigned_to |-> who, limit |-> NoLimit] :
        st \in {None, "todo"}, who \in {None, "breeding"}}

ApiMedArgs ==
    {[rabbit_tag |-> None, active_only |-> a, today |-> td, limit |-> NoLimit] :
        a \in BOOLEAN, td \in {NoneDate, IsoText(<<2024, 2, 30>>)}}

ApiPlanParams ==
    {PlanInput(DefaultMinDoeAge, DefaultMinBuckAge, DefaultCooldown),
     PlanInput(DefaultMinDoeAge + 1, DefaultMinBuckAge, DefaultCooldown),
     PlanInput(-1, DefaultMinBuckAge, DefaultCooldown)}

ApiSymptoms ==
    {[rabbit_tag |-> t, symptoms |-> ss] :
        t \in {None, "A"},
        ss \in {<<>>, <<[body |-> "sneezing", caps |-> TRUE, pad |-> TRUE]>>}}

Init ==
    /\ db = EmptyDb
    /\ today = Today
    /\ request = Idle
    /\ response = Idle

Next ==
    \/ \E p \in RabbitPayloads : create_rabbit(p)
    \/ \E a \in RabbitArgs : list_rabbits(a)
    \/ \E p \in HealthPayloads : create_health_record(p)
    \/ \E a \in TagArgs : list_health_records(a)
    \/ \E p \in BreedingPayloads : create_breeding(p)
    \/ \E a \in BreedingArgs : list_breedings(a)
    \/ \E p \in LitterPayloads : create_litter(p)
    \/ \E a \in LitterArgs : list_litters(a)
    \/ \E p \in MedPayloads : create_medication(p)
    \/ \E a \in ApiMedArgs : list_medication(a)
    \/ \E p \in TaskPayloads \cup SuggestedTasks : create_task(p)
    \/ \E a \in TaskArgs : list_tasks(a)
    \/ \E params \in ApiPlanParams : breeding_plan(params)
    \/ \E payload \in ApiSymptoms : symptom_check(payload)

Spec == Init /\ [][Next]_vars

(***************************************************************************)
(* C9: breeding_plan and symptom_check leave every collection as it is,    *)
(* the task collection included, after any sequence of requests; the task  *)
(* collection changes only in a create_task request.                       *)
(***************************************************************************)
C9_PlanHasNoSideEffects ==
    [][/\ request'.op \in {"breeding_plan", "symptom_check"} => db' = db
       /\ db'["task"] # db["task"] => request'.op = "create_task"]_vars

\* A plan answered with a suggested task after that very suggestion was
\* stored by a create_task request: the task collection holds it once.
C9_Witness ==
    /\ PlanDone
    /\ Len(response.body.tasks) = 1
    /\ Len(db["task"]) = 1
    /\ db["task"][1].title = response.body.tasks[1].title
    /\ db["task"][1].rabbit_tag = response.body.tasks[1].rabbit_tag

====
